---- MODULE Spec2Model ----
(***************************************************************************)
(* A model of kernelstats: the release table and its URL derivation        *)
(* (kernels.rs), the download/cache manager run on a rayon pool            *)
(* (kernels.rs, download_old_kernels / download_archive), the queue built  *)
(* by main (main.rs) from the cached archives and the git tags, and main's *)
(* processing loop with the git checkouts (main.rs, git.rs).               *)
(*                                                                         *)
(* Strings are sequences of one-character strings, so that split,          *)
(* ends_with, trim_end_matches and format! are computed character by       *)
(* character as the Rust code computes them.                               *)
(***************************************************************************)
EXTENDS Integers, Sequences, FiniteSets, TLC

VARIABLES
    verify,        \* the `verify` flag handed to download_old_kernels
    releases,      \* the `versions` slice handed to download_old_kernels
    cache,         \* the cache directory: file name -> content
    task,          \* per release index: the state of its download_archive call
    index_atomic,  \* the progress counter of download_old_kernels
    result,        \* "running", or what download_old_kernels returned: "ok" / "err"
    cached,        \* the Vec<CachedKernel> returned (<<>> unless result = "ok")
    run,           \* number of the current acquisition run (the cache outlives a run)
    warm,          \* history: every catalog file was a valid archive when this run began
    cache0,        \* history: the cache directory as it was when this run began
    finished,      \* history, kept where .on: the tasks that returned, in the order they did
    faulty,        \* environment: release indexes whose network / disk calls may fail
    parallelism,   \* the degree of parallelism the caller of acquire asks for
    kv,            \* URL derivation: the KernelVersion under test
    url_out,       \* URL derivation: <<>> or the result of kv.tar_gz_url()
    kernel_git,    \* main: whether --kernel-git was given
    git_stdout,    \* main: the lines `git tag --sort=taggerdate` prints in the clone
    tags,          \* main: what git.tags() returned
    queue,         \* main: the queue of Kernel units
    mpc,           \* main: position ("idle", "acquire", "archives", "tags", "done", ..)
    mi,            \* main: index of the next element of the running for loop
    stats_is_dir,  \* main: whether the stats directory exists
    stats,         \* main: the names of the files in the stats directory
    head,          \* main: the reference checked out in the git clone's working tree
    trace,         \* history: the steps main's processing loop has taken, <<step, index>>
    main_err,      \* main: <<>> or the message of the error main returned
    git_last,      \* environment: exit code and stderr of the last git child process
    all,           \* main: whether --all was given
    catalog,       \* main: the releases of the table, before the `important` filter
    reader,        \* verifier: the stream handed to test_reader_archive
    vpc,           \* verifier: position ("idle", "entries", "for", "returned")
    vi,            \* verifier: index of the next item of `for entry in entries`
    verdict        \* verifier: <<>> for None, else the reason of Some(reason)

acqVars  == <<verify, releases, cache, task, index_atomic, result, cached, run,
              warm, cache0, finished, faulty, parallelism>>
urlVars  == <<kv, url_out>>
procVars == <<stats_is_dir, stats, head, trace, main_err, git_last>>
catVars  == <<all, catalog>>
verVars  == <<reader, vpc, vi, verdict>>
mainVars == <<kernel_git, git_stdout, tags, queue, mpc, mi, procVars, catVars, verVars>>
vars     == <<verify, releases, cache, task, index_atomic, result, cached, run,
              warm, cache0, finished, faulty, parallelism, kv, url_out, kernel_git, git_stdout,
              tags, queue, mpc, mi, stats_is_dir, stats, head, trace, main_err,
              git_last, all, catalog, reader, vpc, vi, verdict>>

----------------------------------------------------------------------------
(* Bounds of the model.                                                    *)

\* releases handed to one acquisition in the step-by-step specification
NumReleases == 2
\* releases handed to one acquisition in the pool specification
PoolReleases == 9
\* acquisition runs against the same cache directory
MaxRuns == 2
\* largest parallelism a caller asks for
MaxParallelism == 2
\* dot-separated components of a generated version string
MaxParts == 3
\* tokens of a generated tag
MaxTagTokens == 2
\* tags a repository lists
MaxTags == 3
\* cached archives handed to the queue builder
MaxCached == 2
\* tags the clone lists in a whole run of the program
MaxRunTags == 2
\* releases of a generated table
MaxCatalog == 3
\* items of a stream handed to the verifier
MaxEntries == 3

----------------------------------------------------------------------------
(* Strings.                                                                *)

Concat(ss) ==
    LET RECURSIVE cat(_)
        cat(i) == IF i > Len(ss) THEN <<>> ELSE ss[i] \o cat(i + 1)
    IN cat(1)

\* str::starts_with / str::ends_with
starts_with(s, p) == Len(p) <= Len(s) /\ SubSeq(s, 1, Len(p)) = p
ends_with(s, p) == Len(p) <= Len(s) /\ SubSeq(s, Len(s) - Len(p) + 1, Len(s)) = p

\* str::trim_start_matches(char) / str::trim_end_matches(predicate)
RECURSIVE trim_start_matches(_, _)
trim_start_matches(s, c) ==
    IF s # <<>> /\ Head(s) = c THEN trim_start_matches(Tail(s), c) ELSE s

AsciiDigit == {"0", "1", "2", "3", "4", "5", "6", "7", "8", "9"}
\* a numeric character outside ASCII (U+00B2, category No), written as an atom
SuperscriptTwo == "SUPERSCRIPT TWO"
\* char::is_numeric: the Unicode categories Nd, Nl and No
is_numeric(c) == c \in AsciiDigit \cup {SuperscriptTwo}

RECURSIVE trim_end_numeric(_)
trim_end_numeric(s) ==
    IF s # <<>> /\ is_numeric(s[Len(s)])
    THEN trim_end_numeric(SubSeq(s, 1, Len(s) - 1))
    ELSE s

\* str::split(".") collected: the pieces between the dots, at least one
RECURSIVE split(_, _)
split(s, sep) ==
    IF \E i \in 1..Len(s) : s[i] = sep
    THEN LET i == CHOOSE k \in 1..Len(s) :
                      s[k] = sep /\ \A j \in 1..(k - 1) : s[j] # sep
         IN <<SubSeq(s, 1, i - 1)>> \o split(SubSeq(s, i + 1, Len(s)), sep)
    ELSE <<s>>

----------------------------------------------------------------------------
(* The release table and URL derivation (kernels.rs).                      *)

URL_BASE ==
    <<"h","t","t","p","s",":","/","/","m","i","r","r","o","r","s",".","k","e",
      "r","n","e","l",".","o","r","g","/","p","u","b","/","l","i","n","u","x",
      "/","k","e","r","n","e","l">>

\* KernelVersion::new: a leading '!' marks the version important and is cut
KernelVersion_new(raw) ==
    IF starts_with(raw, <<"!">>)
    THEN [important |-> TRUE, raw |-> Tail(raw)]
    ELSE [important |-> FALSE, raw |-> raw]

\* versions(): entries of the embedded table, in table order
versions ==
    LET table == << <<"!","1",".","0">>,
                    <<"!","1",".","1",".","0">>,
                    <<"1",".","1",".","1","3">>,
                    <<"1",".","1",".","2","9">>,
                    <<"!","1",".","2",".","0">>,
                    <<"1",".","2",".","1">>,
                    <<"!","1",".","3",".","0">>,
                    <<"!","2",".","0">>,
                    <<"2",".","0",".","1">>,
                    <<"!","2",".","1",".","0">>,
                    <<"!","2",".","2",".","0">>,
                    <<"!","2",".","6",".","1","1">> >>
    IN [i \in 1..Len(table) |-> KernelVersion_new(table[i])]

\* mutant: 1.1.0 is named like every other release
tar_gz_url_plain(self) ==
    LET version == trim_start_matches(self.raw, "!")
        parts   == split(version, ".")
        major   == parts[1]
        minor   == IF Len(parts) >= 2 THEN parts[2] ELSE <<"x">>
    IN Concat(<<URL_BASE, <<"/","v">>, major, <<".">>, minor,
                <<"/","l","i","n","u","x","-">>, version,
                <<".","t","a","r",".","g","z">> >>)

\* KernelVersion::tar_gz_url
tar_gz_url(self) ==
    LET version == trim_start_matches(self.raw, "!")
        parts   == split(version, ".")
        major   == parts[1]
        minor   == IF Len(parts) >= 2 THEN parts[2] ELSE <<"x">>
        name    == IF version = <<"1",".","1",".","0">>
                   THEN <<"v">> \o version
                   ELSE <<"l","i","n","u","x","-">> \o version
    IN Concat(<<URL_BASE, <<"/","v">>, major, <<".">>, minor, <<"/">>, name,
                <<".","t","a","r",".","g","z">> >>)

\* mutant: the file is named after the major version alone
cache_path_major(version) ==
    <<"l","i","n","u","x","-">> \o split(version.raw, ".")[1]
        \o <<".","t","a","r",".","g","z">>

\* download_archive's `path`, relative to the cache root: linux-{version}.tar.gz
cache_path(version) ==
    <<"l","i","n","u","x","-">> \o version.raw \o <<".","t","a","r",".","g","z">>

----------------------------------------------------------------------------
(* The archive verifier (kernels.rs, test_archive / test_reader_archive).  *)
(*                                                                         *)
(* A byte stream is "valid" (a well-formed gzip-compressed tar), "corrupt" *)
(* (some decompression error, bad entry or bad entry path) or "partial"    *)
(* (a prefix of a body: a truncated gzip stream).  A file is one of these  *)
(* or "absent".                                                            *)

Content == {"absent", "valid", "corrupt", "partial"}

\* test_reader_archive: TRUE stands for Some(reason), FALSE for None
test_reader_archive(bytes) == bytes # "valid"

\* test_archive: a file that cannot be opened is reported like a bad archive
test_archive(file) == IF file = "absent" THEN TRUE ELSE test_reader_archive(file)

----------------------------------------------------------------------------
(* download_archive, one statement at a time.  A step takes the local      *)
(* state t of one call (with t.file the content at the call's own path)    *)
(* and returns the set of local states the statement can leave; f tells    *)
(* whether the environment may fail the call's network and disk requests.  *)

NewTask ==
    [pc |-> "queued", buf |-> "none", url |-> <<>>, err |-> "none",
     bad |-> FALSE, wrote |-> FALSE]

Fail(t, at) == [t EXCEPT !.pc = "err", !.err = at]

\* mutant: an existing file is tested, whatever `verify` says
path_is_file_test(t, v) ==
    IF t.file # "absent" THEN {[t EXCEPT !.pc = "test_archive"]} ELSE {[t EXCEPT !.pc = "get"]}

\* mutant: an existing file is accepted without the test, whatever `verify` says
path_is_file_trust(t, v) ==
    IF t.file # "absent" THEN {[t EXCEPT !.pc = "ok"]} ELSE {[t EXCEPT !.pc = "get"]}

\* mutant: without verify the existing file is not looked at
path_is_file_refetch(t, v) ==
    IF t.file # "absent" /\ v
    THEN {[t EXCEPT !.pc = "test_archive"]}
    ELSE {[t EXCEPT !.pc = "get"]}

\* if path.is_file() { let ok = if verify { ... } else { true }; ... }
path_is_file(t, v) ==
    IF t.file # "absent"
    THEN IF v THEN {[t EXCEPT !.pc = "test_archive"]}
              ELSE {[t EXCEPT !.pc = "ok"]}
    ELSE {[t EXCEPT !.pc = "get"]}

\* mutant: the file is removed and fetched again whatever the test says
match_test_archive_remove(t) == {[t EXCEPT !.pc = "remove_file"]}

\* mutant: the bad archive is warned about and then used all the same
match_test_archive_accept(t) ==
    IF test_archive(t.file)
    THEN {[t EXCEPT !.bad = TRUE, !.pc = "ok"]}
    ELSE {[t EXCEPT !.pc = "ok"]}

\* mutant: a bad archive in the cache is an error of the release
match_test_archive_fatal(t) ==
    IF test_archive(t.file)
    THEN {Fail([t EXCEPT !.bad = TRUE], "test_archive")}
    ELSE {[t EXCEPT !.pc = "ok"]}

\* match test_archive(&path) { None => true, Some(e) => { warn!(..); remove; false } }
match_test_archive(t) ==
    IF test_archive(t.file)
    THEN {[t EXCEPT !.bad = TRUE, !.pc = "remove_file"]}
    ELSE {[t EXCEPT !.pc = "ok"]}

\* mutant: the bad file is left where it is
remove_file_keep(t, f) ==
    {[t EXCEPT !.pc = "get"]} \cup (IF f THEN {Fail(t, "remove_file")} ELSE {})

\* fs::remove_file(&path).map_err(..)?;  then ok = false falls through to the download
remove_file(t, f) ==
    {[t EXCEPT !.file = "absent", !.pc = "get"]}
        \cup (IF f THEN {Fail(t, "remove_file")} ELSE {})

\* reqwest::get(&url).map_err(..)?;  if !res.status().is_success() { return Err }
reqwest_get(t, version, f) ==
    LET u == [t EXCEPT !.url = tar_gz_url(version)]
    IN {[u EXCEPT !.pc = "copy_to"]}
           \cup (IF f THEN {Fail(u, "get"), Fail(u, "status")} ELSE {})

\* res.copy_to(&mut buf).map_err(..)?;  the body is whatever the mirror sent
copy_to(t, f) ==
    {[t EXCEPT !.buf = "valid", !.pc = "test_reader_archive"]}
        \cup (IF f THEN {[t EXCEPT !.buf = "corrupt", !.pc = "test_reader_archive"],
                         [t EXCEPT !.buf = "partial", !.pc = "test_reader_archive"],
                         Fail(t, "copy_to")}
                   ELSE {})

\* mutant: the downloaded body is written without being tested
test_downloaded_skip(t) == {[t EXCEPT !.pc = "create"]}

\* if let Some(e) = test_reader_archive(Cursor::new(&buf)) { return Err }
test_downloaded(t) ==
    IF test_reader_archive(t.buf)
    THEN {Fail(t, "test_reader_archive")}
    ELSE {[t EXCEPT !.pc = "create"]}

\* fs::File::create(&path).map_err(..)?;  creates or truncates the file
File_create(t, f) ==
    {[t EXCEPT !.file = "partial", !.wrote = TRUE, !.pc = "write_all"]}
        \cup (IF f THEN {Fail(t, "create")} ELSE {})

\* out.write_all(&buf).map_err(..)?;  a failed write leaves a prefix of buf
write_all(t, f) ==
    {[t EXCEPT !.file = t.buf, !.pc = "sync_all"]}
        \cup (IF f THEN {Fail(t, "write_all")} ELSE {})

\* out.sync_all().map_err(..)?;  Ok(CachedKernel { version, path })
sync_all(t, f) ==
    {[t EXCEPT !.pc = "ok"]} \cup (IF f THEN {Fail(t, "sync_all")} ELSE {})

Terminal == {"ok", "err"}
InFlightPc == {"is_file", "test_archive", "remove_file", "get", "copy_to",
               "test_reader_archive", "create", "write_all", "sync_all"}

\* the statement at t.pc
Statement(t, version, v, f) ==
    CASE t.pc = "is_file"             -> path_is_file(t, v)
      [] t.pc = "test_archive"        -> match_test_archive(t)
      [] t.pc = "remove_file"         -> remove_file(t, f)
      [] t.pc = "get"                 -> reqwest_get(t, version, f)
      [] t.pc = "copy_to"             -> copy_to(t, f)
      [] t.pc = "test_reader_archive" -> test_downloaded(t)
      [] t.pc = "create"              -> File_create(t, f)
      [] t.pc = "write_all"           -> write_all(t, f)
      [] t.pc = "sync_all"            -> sync_all(t, f)
      [] OTHER                        -> {}

\* download_archive as one call: every way it can run from t to its return
RECURSIVE download_archive(_, _, _, _)
download_archive(t, version, v, f) ==
    IF t.pc \in Terminal
    THEN {t}
    ELSE UNION {download_archive(t2, version, v, f) :
                    t2 \in Statement(t, version, v, f)}

----------------------------------------------------------------------------
(* download_old_kernels: a rayon pool of num_threads threads maps          *)
(* download_archive over the slice and collects a Result<Vec<_>, Error>.   *)

\* ThreadPoolBuilder::new().num_threads(8)
num_threads == 8

N == Len(releases)
Path(i) == cache_path(releases[i])
InFlight == {i \in 1..N : task[i].pc \in InFlightPc}
\* collect::<Result<..>>() has seen an Err: no further item is started
Full == \E i \in 1..N : task[i].pc = "err"

\* the call's local state: its task record and the file at its own path
Local(i) == [file |-> cache[Path(i)]] @@ task[i]
Commit(i, t) ==
    /\ task' = [task EXCEPT ![i] = [k \in DOMAIN NewTask |-> t[k]]]
    /\ cache' = [cache EXCEPT ![Path(i)] = t.file]
    /\ finished' = IF finished.on /\ t.pc \in Terminal
                   THEN [finished EXCEPT !.order = Append(@, i)]
                   ELSE finished

\* mutant: every item is started at once
ThreadAlwaysFree == TRUE

\* a pool thread is free to take the next item
ThreadFree == Cardinality(InFlight) < num_threads

\* a pool thread takes item i: index_atomic.fetch_add(1), then download_archive.
\* Once an Err was collected the pool starts no further item; a thread that had
\* already decided to go on starts its item as if before that Err, since taking
\* an item touches neither the cache nor the network.
Begin(i) ==
    /\ result = "running"
    /\ task[i].pc = "queued"
    /\ ~Full
    /\ ThreadFree
    /\ task' = [task EXCEPT ![i].pc = "is_file"]
    /\ index_atomic' = index_atomic + 1
    /\ UNCHANGED <<verify, releases, cache, result, cached, run, warm, cache0, finished,
                   faulty, parallelism, urlVars, mainVars>>

\* one statement of item i's download_archive
Advance(i, at) ==
    /\ result = "running"
    /\ task[i].pc = at
    /\ \E t \in Statement(Local(i), releases[i], verify, i \in faulty) : Commit(i, t)
    /\ UNCHANGED <<verify, releases, index_atomic, result, cached, run, warm, cache0,
                   faulty, parallelism, urlVars, mainVars>>

StepIsFile(i)      == Advance(i, "is_file")
StepTestArchive(i) == Advance(i, "test_archive")
StepRemoveFile(i)  == Advance(i, "remove_file")
StepGet(i)         == Advance(i, "get")
StepCopyTo(i)      == Advance(i, "copy_to")
StepTestReader(i)  == Advance(i, "test_reader_archive")
StepCreate(i)      == Advance(i, "create")
StepWriteAll(i)    == Advance(i, "write_all")
StepSyncAll(i)     == Advance(i, "sync_all")

\* item i's download_archive from its first statement to its return
RunToReturn(i) ==
    /\ result = "running"
    /\ task[i].pc = "is_file"
    /\ \E t \in download_archive(Local(i), releases[i], verify, i \in faulty) :
           Commit(i, t)
    /\ UNCHANGED <<verify, releases, index_atomic, result, cached, run, warm, cache0,
                   faulty, parallelism, urlVars, mainVars>>

\* CachedKernel { version, path }
CachedKernel(i) == [version |-> releases[i], path |-> Path(i)]

\* mutant: the results are gathered in the order the tasks returned
collect_as_finished(ts) ==
    IF \E i \in DOMAIN ts : ts[i].pc = "err"
    THEN [result |-> "err", cached |-> <<>>]
    ELSE [result |-> "ok",
          cached |-> [k \in 1..Len(finished.order) |-> CachedKernel(finished.order[k])]]

\* mutant: the releases that were acquired are returned, the failed ones dropped
collect_partial(ts) ==
    LET got == SelectSeq([i \in DOMAIN ts |-> i], LAMBDA i : ts[i].pc = "ok")
    IN [result |-> "ok", cached |-> [k \in 1..Len(got) |-> CachedKernel(got[k])]]

\* results.collect::<Result<Vec<CachedKernel>, Error>>()
collect(ts) ==
    IF \E i \in DOMAIN ts : ts[i].pc = "err"
    THEN [result |-> "err", cached |-> <<>>]
    ELSE [result |-> "ok", cached |-> [i \in DOMAIN ts |-> CachedKernel(i)]]

\* pool.install returns once no item is running and none is left to start
Collect ==
    /\ result = "running"
    /\ InFlight = {}
    /\ Full \/ \A i \in 1..N : task[i].pc = "ok"
    /\ result' = collect(task).result
    /\ cached' = collect(task).cached
    /\ UNCHANGED <<verify, releases, cache, task, index_atomic, run, warm, cache0,
                   finished, faulty, parallelism, urlVars, mainVars>>

AllValid(c, rs) == \A i \in 1..Len(rs) : c[cache_path(rs[i])] = "valid"

\* the program is started again on the same cache directory
NextRun ==
    /\ result # "running"
    /\ run < MaxRuns
    /\ run' = run + 1
    /\ verify' \in BOOLEAN
    /\ task' = [i \in 1..N |-> NewTask]
    /\ index_atomic' = 0
    /\ result' = "running"
    /\ cached' = <<>>
    /\ warm' = AllValid(cache, releases)
    /\ cache0' = cache
    /\ finished' = [finished EXCEPT !.order = <<>>]
    /\ UNCHANGED <<releases, cache, faulty, parallelism, urlVars, mainVars>>

\* the process is terminated in the middle of an acquisition, whatever its
\* tasks are doing, and the program is started again on the same cache directory
Terminate ==
    /\ result = "running"
    /\ run < MaxRuns
    /\ run' = run + 1
    /\ verify' \in BOOLEAN
    /\ task' = [i \in 1..N |-> NewTask]
    /\ index_atomic' = 0
    /\ cached' = <<>>
    /\ warm' = AllValid(cache, releases)
    /\ cache0' = cache
    /\ finished' = [finished EXCEPT !.order = <<>>]
    /\ UNCHANGED <<releases, cache, result, faulty, parallelism, urlVars, mainVars>>

\* the cache paths of the first n table entries
Paths(n) == {cache_path(versions[i]) : i \in 1..n}
Take(s, n) == SubSeq(s, 1, n)

\* a stream as the tar reader over the gzip decoder presents it: whether
\* Archive::entries fails, and the items its iterator yields
Stream(entries_err, items) == [entries_err |-> entries_err, items |-> items]

\* the variables of the parts of the program a specification leaves at rest
VerIdle == reader = Stream(FALSE, <<>>) /\ vpc = "idle" /\ vi = 0 /\ verdict = <<>>
UrlIdle == kv = KernelVersion_new(<<>>) /\ url_out = <<>>
\* a git child process that exited with `code` after writing `stderr`
GitChild(code, stderr) == [code |-> code, stderr |-> stderr]

\* the catalog of a specification that starts after main's filter: every
\* release of it is handed to download_old_kernels
CatIdle == all = TRUE /\ catalog = releases

\* main before its processing loop: no stats directory, nothing checked out
ProcIdle ==
    /\ stats_is_dir = FALSE
    /\ stats = {}
    /\ head = <<>>
    /\ trace = <<>>
    /\ main_err = <<>>
    /\ git_last = GitChild(0, "")

MainIdle ==
    /\ kernel_git = FALSE
    /\ git_stdout = <<>>
    /\ tags = <<>>
    /\ queue = <<>>
    /\ mpc = "idle"
    /\ mi = 0
    /\ ProcIdle
    /\ CatIdle

\* the order of return is not recorded
OrderOff == [on |-> FALSE, order |-> <<>>]

\* n releases of the table, their files with contents drawn from `found`; the
\* cache directory also holds a valid archive of the next table entry, a
\* release that is not handed to the acquisition; the caller would like one of
\* the degrees of parallelism in `asked`
InitAcquire(n, found, mayFail, asked) ==
    /\ verify \in BOOLEAN
    /\ releases = Take(versions, n)
    /\ \E c \in [Paths(n) -> found] :
           cache = [p \in Paths(n + 1) |-> IF p \in Paths(n) THEN c[p] ELSE "valid"]
    /\ task = [i \in 1..n |-> NewTask]
    /\ index_atomic = 0
    /\ result = "running"
    /\ cached = <<>>
    /\ run = 1
    /\ warm = AllValid(cache, releases)
    /\ cache0 = cache
    /\ faulty = mayFail
    /\ parallelism \in asked

Init ==
    /\ InitAcquire(NumReleases, {"absent", "valid", "corrupt"}, 1..NumReleases,
                   {MaxParallelism})
    /\ finished = OrderOff
    /\ UrlIdle
    /\ VerIdle
    /\ MainIdle

Next ==
    \/ \E i \in 1..N : Begin(i)
    \/ \E i \in 1..N : StepIsFile(i)
    \/ \E i \in 1..N : StepTestArchive(i)
    \/ \E i \in 1..N : StepRemoveFile(i)
    \/ \E i \in 1..N : StepGet(i)
    \/ \E i \in 1..N : StepCopyTo(i)
    \/ \E i \in 1..N : StepTestReader(i)
    \/ \E i \in 1..N : StepCreate(i)
    \/ \E i \in 1..N : StepWriteAll(i)
    \/ \E i \in 1..N : StepSyncAll(i)
    \/ Collect
    \/ NextRun

Spec == Init /\ [][Next]_vars

\* The pool specification: more releases than pool threads on a cold cache,
\* each download_archive call taken as one step from its start to its return;
\* the environment may fail the requests of the first release only, and the
\* caller would like the releases fetched one at a time.
InitPool ==
    /\ InitAcquire(PoolReleases, {"absent"}, {1}, {1})
    /\ finished = OrderOff
    /\ UrlIdle
    /\ VerIdle
    /\ MainIdle

NextPool ==
    \/ \E i \in 1..N : Begin(i)
    \/ \E i \in 1..N : RunToReturn(i)
    \/ Collect

SpecPool == InitPool /\ [][NextPool]_vars

----------------------------------------------------------------------------
(* URL derivation on its own: tar_gz_url applied to table entries.         *)

Join(parts, sep) ==
    LET RECURSIVE join(_)
        join(i) == IF i = Len(parts) THEN parts[i]
                   ELSE parts[i] \o <<sep>> \o join(i + 1)
    IN join(1)

\* the numbers a generated version string is made of
Components == {<<"0">>, <<"1">>, <<"2">>, <<"3">>, <<"6">>, <<"1","1">>}

\* table entries: up to MaxParts numbers joined by dots, important or not
TableEntries ==
    LET dotted == UNION {{Join(ps, ".") : ps \in [1..n -> Components]} : n \in 1..MaxParts}
    IN dotted \cup {<<"!">> \o d : d \in dotted}

\* the acquisition at rest, after a run that had nothing to fetch
AcqIdle ==
    /\ verify = FALSE
    /\ releases = <<>>
    /\ cache = [p \in Paths(1) |-> "valid"]
    /\ task = <<>>
    /\ index_atomic = 0
    /\ result = "ok"
    /\ cached = <<>>
    /\ run = 1
    /\ warm = TRUE
    /\ cache0 = cache
    /\ finished = OrderOff
    /\ faulty = {}
    /\ parallelism = 1

InitUrl ==
    /\ AcqIdle
    /\ MainIdle
    /\ VerIdle
    /\ \E raw \in TableEntries : kv = KernelVersion_new(raw)
    /\ url_out = <<>>

CallTarGzUrl ==
    /\ url_out = <<>>
    /\ url_out' = tar_gz_url(kv)
    /\ UNCHANGED <<kv, acqVars, mainVars>>

NextUrl == CallTarGzUrl

SpecUrl == InitUrl /\ [][NextUrl]_vars

Dots(v) == {i \in 1..Len(v) : v[i] = "."}
Least(S) == CHOOSE x \in S : \A y \in S : x <= y

\* the mirror-relative path the specification gives for a versionId: the text
\* before the first dot, the text between the first and the second dot (x when
\* there is no dot), and the 1.1.0 exception
ExpectedPath(v) ==
    LET d1    == IF Dots(v) = {} THEN Len(v) + 1 ELSE Least(Dots(v))
        d2    == IF Dots(v) \ {d1} = {} THEN Len(v) + 1 ELSE Least(Dots(v) \ {d1})
        major == SubSeq(v, 1, d1 - 1)
        minor == IF Dots(v) = {} THEN <<"x">> ELSE SubSeq(v, d1 + 1, d2 - 1)
    IN IF v = <<"1",".","1",".","0">>
       THEN <<"v","1",".","1","/","v","1",".","1",".","0",".","t","a","r",".","g","z">>
       ELSE Concat(<< <<"v">>, major, <<".">>, minor,
                      <<"/","l","i","n","u","x","-">>, v,
                      <<".","t","a","r",".","g","z">> >>)

ExpectedUrl(v) == URL_BASE \o <<"/">> \o ExpectedPath(v)

\* C9: without an override, the derived URL of every versionId is the base
\* mirror, "/", then v{major}.{minor}/linux-{versionId}.tar.gz, with minor x
\* when there is no second component and v1.1/v1.1.0.tar.gz for 1.1.0; so
\* 2.6.11 gives v2.6/linux-2.6.11.tar.gz and 3 gives v3.x/linux-3.tar.gz.
C9_UrlDerivation ==
    url_out # <<>> =>
        /\ url_out = ExpectedUrl(kv.raw)
        /\ kv.raw = <<"2",".","6",".","1","1">> =>
               url_out = URL_BASE \o <<"/","v","2",".","6","/","l","i","n","u","x","-",
                                       "2",".","6",".","1","1",".","t","a","r",".","g","z">>
        /\ kv.raw = <<"1",".","1",".","0">> =>
               url_out = URL_BASE \o <<"/","v","1",".","1","/","v","1",".","1",".","0",
                                       ".","t","a","r",".","g","z">>
        /\ kv.raw = <<"3">> =>
               url_out = URL_BASE \o <<"/","v","3",".","x","/","l","i","n","u","x","-",
                                       "3",".","t","a","r",".","g","z">>

C9_Witness == kv.raw = <<"3">> /\ kv.important /\ url_out # <<>>

----------------------------------------------------------------------------
(* Properties of the acquisition.                                          *)

Downloading == {"get", "copy_to", "test_reader_archive", "create"}
File(i) == cache[Path(i)]

\* C1: a cache file the verifier reported bad in this run is deleted before
\* any further step for that release: while the release is on its way to the
\* download the file is gone, no request was sent while the bad file was
\* still there, and a CachedKernel is returned for such a release only for a
\* file written anew in this run, never for the file that failed.
C1_BadFileDeletedFirst ==
    \A i \in 1..N :
        task[i].bad =>
            /\ task[i].pc \in Downloading => File(i) = "absent"
            /\ task[i].url # <<>> => (File(i) = "absent" \/ task[i].wrote)
            /\ task[i].pc = "ok" => (task[i].wrote /\ File(i) = "valid")
            /\ result = "ok" => (task[i].wrote /\ File(i) = "valid")

C1_Witness ==
    \E i \in 1..N :
        task[i].bad /\ task[i].pc = "get" /\ File(i) = "absent" /\ verify

\* C2: for a freshly downloaded release the file is created and written only
\* after the buffered body passed the verifier, with verify on or off; a body
\* that fails the verifier leaves nothing written and the release, and with it
\* the acquisition, fails.
C2_WriteOnlyVerifiedBody ==
    \A i \in 1..N :
        /\ task[i].pc \in {"create", "write_all", "sync_all"} => task[i].buf = "valid"
        /\ task[i].wrote => (task[i].buf = "valid" /\ File(i) \in {"partial", "valid"})
        /\ task[i].err = "test_reader_archive" =>
               /\ task[i].pc = "err"
               /\ ~task[i].wrote
               /\ File(i) = "absent"
               /\ result # "ok"

C2_Witness ==
    /\ ~verify
    /\ \E i \in 1..N : task[i].err = "test_reader_archive"
    /\ \E i \in 1..N : task[i].wrote /\ task[i].pc = "ok"

\* C3 as stated: at most `parallelism` releases, the number the caller of
\* acquire asked for, are in flight at the same time.
C3_AtMostParallelismInFlight == Cardinality(InFlight) <= parallelism

\* C3 as amended: the pool is built with num_threads threads whatever the
\* caller wants, and at most num_threads releases are in flight at the same
\* time; a release left over is still queued while all threads are busy.
C3_AtMostNumThreadsInFlight == Cardinality(InFlight) <= num_threads

C3_Witness ==
    /\ Cardinality(InFlight) = num_threads
    /\ \E i \in 1..N : task[i].pc = "queued"

\* C4: acquisition has no partial success: it returns a sequence only when
\* every release of the catalog was acquired, one CachedKernel per release;
\* once any release failed it returns an error and no sequence.
C4_NoPartialSuccess ==
    /\ result = "ok" =>
           /\ \A i \in 1..N : task[i].pc = "ok"
           /\ Len(cached) = N
           /\ \A i \in 1..N : cached[i].version = releases[i]
    /\ result = "err" => cached = <<>>
    /\ (result # "running" /\ \E i \in 1..N : task[i].pc = "err") => result = "err"

C4_Witness ==
    /\ result = "err"
    /\ \E i \in 1..N : task[i].pc = "ok" /\ task[i].wrote
    /\ \E i \in 1..N : task[i].pc = "err"

\* C5: a run that starts with a valid archive at every release's cache path
\* sends no network request, fails no release and returns a CachedKernel for
\* every release, with verify on or off.
C5_WarmCacheNoRequests ==
    warm =>
        /\ \A i \in 1..N : task[i].url = <<>> /\ task[i].pc # "err" /\ ~task[i].wrote
        /\ result # "err"
        /\ result = "ok" => Len(cached) = N

C5_Witness == run = 2 /\ warm /\ verify /\ result = "ok" /\ Len(cached) = N

\* C6: only a verify-enabled run reports a cache file bad; it then deletes the
\* file before it sends the request, the request goes to the release's derived
\* URL, and whenever a release of a verify-enabled run is reported acquired the
\* file at its path is one that passed the verifier.
C6_SelfHealing ==
    \A i \in 1..N :
        /\ task[i].bad =>
               /\ verify
               /\ task[i].pc = "copy_to" => File(i) = "absent"
               /\ task[i].pc = "ok" => task[i].url # <<>>
        /\ task[i].url # <<>> => task[i].url = ExpectedUrl(releases[i].raw)
        /\ (verify /\ task[i].pc = "ok") => File(i) = "valid"

C6_Witness ==
    \E i \in 1..N :
        /\ task[i].bad /\ task[i].pc = "ok" /\ File(i) = "valid"
        /\ task[i].url # <<>>

\* C7 as stated: a cache file that fails verification never makes the release
\* fail on that path, also when deleting the file fails: a release whose file
\* was reported bad can fail only in the download that follows.
C7_BadArchiveNeverFatal ==
    \A i \in 1..N : (task[i].bad /\ task[i].pc = "err") => task[i].url # <<>>

\* C7 as amended: a release whose cache file was reported bad fails before the
\* download exactly when deleting the file failed (the bad file is then still
\* in place and no request was sent); when the deletion succeeds the release
\* goes on to the download.
C7_BadArchiveFatalOnlyIfRemoveFails ==
    \A i \in 1..N :
        task[i].bad =>
            /\ (task[i].pc = "err" /\ task[i].url = <<>>) <=> task[i].err = "remove_file"
            /\ task[i].err = "remove_file" => File(i) \in {"corrupt", "partial"}
            /\ task[i].pc = "ok" => task[i].url # <<>>

C7_Witness ==
    /\ result = "err"
    /\ \E i \in 1..N : task[i].bad /\ task[i].err = "remove_file"

----------------------------------------------------------------------------
(* main: the queue built from the cached archives and the git tags         *)
(* (main.rs), and Git::tags (git.rs).                                      *)

\* Git::tags: the output split at "\n", empty pieces dropped
Git_tags(lines) == SelectSeq(lines, LAMBDA s : s # <<>>)

\* the match in main's tag loop: TRUE when the arm is a `continue`
skip_tag(tag) ==
    \/ tag = <<"v","2",".","6",".","1","1">>
    \/ ends_with(tag, <<"-","t","r","e","e">>)
    \/ ends_with(trim_end_numeric(tag), <<"-","r","c">>)

\* Kernel::Archive { release, version: format!("v{}", ..), path }
Kernel_Archive(kernel) ==
    [kind |-> "Archive", release |-> kernel.version,
     version |-> <<"v">> \o kernel.version.raw, path |-> kernel.path]

\* Kernel::Git { tag, git }
Kernel_Git(tag) == [kind |-> "Git", tag |-> tag]

\* mutant: every label is the version field or tag behind a `v`
Kernel_version_prefixed(q) == <<"v">> \o (IF q.kind = "Archive" THEN q.version ELSE q.tag)

\* Kernel::version
Kernel_version(q) == IF q.kind = "Archive" THEN q.version ELSE q.tag

\* mutant: the unit is put at the head of the queue
push_front(q, unit) == <<unit>> \o q

\* queue.push(..)
push(q, unit) == Append(q, unit)

\* for kernel in &cached { queue.push(Kernel::Archive { .. }) }
QueueArchive ==
    /\ mpc = "archives"
    /\ mi <= Len(cached)
    /\ queue' = push(queue, Kernel_Archive(cached[mi]))
    /\ mi' = mi + 1
    /\ UNCHANGED <<kernel_git, git_stdout, tags, mpc, procVars, acqVars, urlVars, catVars, verVars>>

\* how a git child process may end: its exit code and what it wrote to stderr
GitExits ==
    {GitChild(0, ""), GitChild(1, "error: pathspec did not match"),
     GitChild(128, "fatal: not a git repository")}

\* "{status}": the Display of a process::ExitStatus
ExitStatus_fmt(code) ==
    CASE code = 0 -> "exit status: 0"
      [] code = 1 -> "exit status: 1"
      [] code = 128 -> "exit status: 128"

\* Git::git_run, which lets the child inherit stdout and stderr: <<>> for
\* Ok(()), else the message of the error
git_run(child) ==
    IF child.code = 0 THEN <<>>
    ELSE <<"git call failed: ", ExitStatus_fmt(child.code)>>

\* Git::git, which captures the child's output: <<>> for Ok(stdout), else the
\* message of the error
git(child) ==
    IF child.code = 0 THEN <<>>
    ELSE <<"git error: ", child.stderr>>

\* if let Some(kernel_git_dir) = kernel_git_dir { .. git.tags()? .. }
ListTags ==
    /\ mpc = "archives"
    /\ mi > Len(cached)
    /\ \/ /\ ~kernel_git
          /\ mpc' = "done"
          /\ UNCHANGED <<tags, mi, main_err, git_last>>
       \/ /\ kernel_git               \* !kernel_git_dir.is_dir()
          /\ mpc' = "failed"
          /\ main_err' = <<"missing kernel directory">>
          /\ UNCHANGED <<tags, mi, git_last>>
       \/ /\ kernel_git               \* git.tags()
          /\ \E child \in GitExits :
                 /\ git_last' = child
                 /\ main_err' = git(child)
                 /\ IF git(child) = <<>>
                    THEN /\ mpc' = "tags"
                         /\ tags' = Git_tags(git_stdout)
                         /\ mi' = 1
                    ELSE /\ mpc' = "failed"
                         /\ UNCHANGED <<tags, mi>>
    /\ UNCHANGED <<kernel_git, git_stdout, queue, stats_is_dir, stats, head, trace,
                   acqVars, urlVars, catVars, verVars>>

\* for tag in git.tags()? { match tag.as_str() { .. continue .. }; queue.push(..) }
QueueTag ==
    /\ mpc = "tags"
    /\ mi <= Len(tags)
    /\ queue' = IF skip_tag(tags[mi]) THEN queue ELSE push(queue, Kernel_Git(tags[mi]))
    /\ mi' = mi + 1
    /\ UNCHANGED <<kernel_git, git_stdout, tags, mpc, procVars, acqVars, urlVars, catVars, verVars>>

TagsDone ==
    /\ mpc = "tags"
    /\ mi > Len(tags)
    /\ mpc' = "done"
    /\ UNCHANGED <<kernel_git, git_stdout, tags, queue, mi, procVars, acqVars, urlVars, catVars, verVars>>

\* what a generated tag is made of
TagTokens ==
    {<<"v","5",".","4">>, <<"v","2",".","6",".","1","1">>, <<"-","r","c">>,
     <<"-","t","r","e","e">>, <<"-","d","o","n","t","u","s","e">>,
     <<"1">>, <<"x">>}

\* tags of up to MaxTagTokens tokens
TagPool == UNION {{Concat(ts) : ts \in [1..n -> TagTokens]} : n \in 1..MaxTagTokens}

ExampleTags ==
    << <<"v","2",".","6",".","1","1">>,
       <<"v","5",".","4","-","r","c","1">>,
       <<"v","5",".","4","-","r","c">>,
       <<"v","5",".","4","-","t","r","e","e">>,
       <<"v","5",".","4","-","d","o","n","t","u","s","e">>,
       <<"v","5",".","4">> >>

Range(f) == {f[i] : i \in DOMAIN f}

\* what the clone lists: one generated tag, the example list, or up to MaxTags
\* of the example's tags in any order
TagLists ==
    {<<t>> : t \in TagPool} \cup {ExampleTags}
        \cup UNION {[1..n -> Range(ExampleTags)] : n \in 0..MaxTags}

\* main after download_old_kernels returned Ok(cached)
InitMain ==
    /\ verify \in BOOLEAN
    /\ \E n \in 0..MaxCached : releases = Take(versions, n)
    /\ cache = [p \in Paths(Len(releases)) |-> "valid"]
    /\ task = [i \in 1..Len(releases) |-> [NewTask EXCEPT !.pc = "ok"]]
    /\ index_atomic = Len(releases)
    /\ result = collect(task).result
    /\ cached = collect(task).cached
    /\ run = 1
    /\ warm = TRUE
    /\ cache0 = cache
    /\ finished = OrderOff
    /\ faulty = {}
    /\ parallelism = 1
    /\ UrlIdle
    /\ VerIdle
    /\ kernel_git \in BOOLEAN
    /\ \E l \in TagLists : git_stdout = l \o << <<>> >>
    /\ tags = <<>>
    /\ queue = <<>>
    /\ mpc = "archives"
    /\ mi = 1
    /\ ProcIdle
    /\ CatIdle

NextMain ==
    \/ QueueArchive
    \/ ListTags
    \/ QueueTag
    \/ TagsDone

SpecMain == InitMain /\ [][NextMain]_vars

GitTagsOf(q) ==
    LET gits == SelectSeq(q, LAMBDA u : u.kind = "Git")
    IN [k \in 1..Len(gits) |-> gits[k].tag]

StripAsciiDigits(s) ==
    LET RECURSIVE strip(_)
        strip(n) == IF n > 0 /\ s[n] \in AsciiDigit THEN strip(n - 1) ELSE SubSeq(s, 1, n)
    IN strip(Len(s))

\* the exclusion rule as the specification words it
Excluded(tag) ==
    \/ tag = <<"v","2",".","6",".","1","1">>
    \/ ends_with(tag, <<"-","t","r","e","e">>)
    \/ ends_with(tag, <<"-","d","o","n","t","u","s","e">>)
    \/ ends_with(StripAsciiDigits(tag), <<"-","r","c">>)

\* C8: a tag is left out of the queue if and only if it equals v2.6.11, or
\* ends with -tree or -dontuse, or ends with -rc once its trailing ASCII digits
\* are stripped; from the example list only v5.4 is queued.
C8_TagExclusion ==
    mpc = "done" /\ kernel_git =>
        /\ GitTagsOf(queue) = SelectSeq(tags, LAMBDA t : ~Excluded(t))
        /\ tags = ExampleTags => GitTagsOf(queue) = << <<"v","5",".","4">> >>

\* C10: the queue holds the archive units first, in the order acquisition
\* returned them, then the VCS units in tag-listing order for the tags the
\* filter lets through; no VCS unit precedes an archive unit.
C10_QueueOrder ==
    /\ \A a, b \in 1..Len(queue) :
           (a < b /\ queue[a].kind = "Git") => queue[b].kind = "Git"
    /\ mpc \in {"tags", "done", "failed"} =>
           /\ Len(queue) >= Len(cached)
           /\ \A k \in 1..Len(cached) :
                  /\ queue[k].kind = "Archive"
                  /\ queue[k].path = cached[k].path
                  /\ queue[k].release = cached[k].version
    /\ mpc = "tags" =>
           GitTagsOf(queue) = SelectSeq(SubSeq(tags, 1, mi - 1), LAMBDA t : ~skip_tag(t))
    /\ mpc = "done" =>
           /\ GitTagsOf(queue) = SelectSeq(tags, LAMBDA t : ~skip_tag(t))
           /\ Len(queue) = Len(cached) + Len(GitTagsOf(queue))

C10_Witness ==
    /\ mpc = "done"
    /\ Len(cached) = 2
    /\ Len(GitTagsOf(queue)) = 2
    /\ Len(tags) > 2
    /\ queue[3].tag # queue[4].tag

----------------------------------------------------------------------------
(* The whole of main (main.rs): the call of download_old_kernels, the      *)
(* queue, and the processing loop with Kernel::analyze and                  *)
(* Git::checkout_hard (git.rs).                                             *)

\* mutant: main goes on while download_old_kernels is still running
returned_early(r) == TRUE

\* let cached = kernels::download_old_kernels(..)?; the call returns once
\* the pool has joined and the results are collected
returned(r) == r # "running"

\* the `?` on download_old_kernels
Acquired ==
    /\ mpc = "acquire"
    /\ returned(result)
    /\ IF result = "err"
       THEN /\ mpc' = "failed"
            /\ main_err' = <<"download_old_kernels">>
            /\ UNCHANGED mi
       ELSE /\ mpc' = "archives"
            /\ mi' = 1
            /\ UNCHANGED main_err
    /\ UNCHANGED <<kernel_git, git_stdout, tags, queue, stats_is_dir, stats, head,
                   trace, git_last, acqVars, urlVars, catVars, verVars>>

\* mutant: the flag is not looked at once the queue is built
verify_only_never(v) == FALSE

\* the condition of `if verify { .. return Ok(()) }`
verify_only(v) == v

\* if verify { for q in queue { info!(..) } return Ok(()) }
VerifyReturn ==
    /\ mpc = "done"
    /\ verify_only(verify)
    /\ mpc' = "exit"
    /\ UNCHANGED <<kernel_git, git_stdout, tags, queue, mi, procVars, acqVars, urlVars, catVars, verVars>>

\* if !stats_dir.is_dir() { fs::create_dir_all(stats_dir)? }
CreateStatsDir ==
    /\ mpc = "done"
    /\ ~verify_only(verify)
    /\ \/ /\ stats_is_dir' = TRUE
          /\ mpc' = "process"
          /\ mi' = 1
          /\ UNCHANGED main_err
       \/ /\ ~stats_is_dir
          /\ mpc' = "failed"
          /\ main_err' = <<"failed to create stats directory">>
          /\ UNCHANGED <<stats_is_dir, mi>>
    /\ UNCHANGED <<kernel_git, git_stdout, tags, queue, stats, head, trace, git_last,
                   acqVars, urlVars, catVars, verVars>>

\* mutant: the report is named without the .gz suffix
report_name_json(q) ==
    <<"l","i","n","u","x","-">> \o Kernel_version(q) \o <<".","j","s","o","n">>

\* format!("linux-{}.json.gz", q.version())
report_name(q) ==
    <<"l","i","n","u","x","-">> \o Kernel_version(q) \o <<".","j","s","o","n",".","g","z">>

\* mutant: an existing report is not looked for
is_file_never(p, dir) == FALSE

\* p.is_file(), p a name in the stats directory
is_file(p, dir) == p \in dir

\* the head of `for q in queue`: the end of the loop, the `continue` on an
\* existing report, or the entry into q.analyze()
Process ==
    /\ mpc = "process"
    /\ IF mi > Len(queue)
       THEN mpc' = "exit" /\ UNCHANGED mi
       ELSE IF is_file(report_name(queue[mi]), stats)
            THEN mi' = mi + 1 /\ UNCHANGED mpc
            ELSE /\ mpc' = IF queue[mi].kind = "Archive" THEN "tokei_tar_gz" ELSE "clean"
                 /\ UNCHANGED mi
    /\ UNCHANGED <<kernel_git, git_stdout, tags, queue, procVars, acqVars, urlVars, catVars, verVars>>

\* Kernel::analyze, Archive arm: output.all = tokei_tar_gz(path, encoding)?
TokeiTarGz ==
    /\ mpc = "tokei_tar_gz"
    /\ trace' = Append(trace, <<"tokei_tar_gz", mi>>)
    /\ \/ /\ mpc' = "report"
          /\ UNCHANGED main_err
       \/ /\ mpc' = "failed"
          /\ main_err' = <<"tokei_tar_gz">>
    /\ UNCHANGED <<kernel_git, git_stdout, tags, queue, mi, stats_is_dir, stats, head,
                   git_last, acqVars, urlVars, catVars, verVars>>

\* Git::checkout_hard, first statement: self.git_run(&["clean", "-fdx"])?
Clean ==
    /\ mpc = "clean"
    /\ trace' = Append(trace, <<"clean", mi>>)
    /\ \E child \in GitExits :
           /\ git_last' = child
           /\ main_err' = git_run(child)
           /\ mpc' = IF git_run(child) = <<>> THEN "checkout" ELSE "failed"
    /\ UNCHANGED <<kernel_git, git_stdout, tags, queue, mi, stats_is_dir, stats, head,
                   acqVars, urlVars, catVars, verVars>>

\* Git::checkout_hard, second statement: self.git_run(&["checkout", reference])?
Checkout ==
    /\ mpc = "checkout"
    /\ trace' = Append(trace, <<"checkout", mi>>)
    /\ \E child \in GitExits :
           /\ git_last' = child
           /\ main_err' = git_run(child)
           /\ IF git_run(child) = <<>>
              THEN mpc' = "tokei" /\ head' = queue[mi].tag
              ELSE mpc' = "failed" /\ UNCHANGED head
    /\ UNCHANGED <<kernel_git, git_stdout, tags, queue, mi, stats_is_dir, stats,
                   acqVars, urlVars, catVars, verVars>>

\* Kernel::analyze, Git arm: output.all = tokei(git.repo)?
Tokei ==
    /\ mpc = "tokei"
    /\ trace' = Append(trace, <<"tokei", mi>>)
    /\ \/ /\ mpc' = "report"
          /\ UNCHANGED main_err
       \/ /\ mpc' = "failed"
          /\ main_err' = <<"tokei">>
    /\ UNCHANGED <<kernel_git, git_stdout, tags, queue, mi, stats_is_dir, stats, head,
                   git_last, acqVars, urlVars, catVars, verVars>>

\* File::create(&p)?, serde_json::to_writer(..)?, writeln!(..)?, o.flush()?
WriteReport ==
    /\ mpc = "report"
    /\ \/ /\ stats' = stats \cup {report_name(queue[mi])}
          /\ trace' = Append(trace, <<"report", mi>>)
          /\ mi' = mi + 1
          /\ mpc' = "process"
          /\ UNCHANGED main_err
       \/ /\ mpc' = "failed"
          /\ main_err' = <<"failed to create output file">>
          /\ UNCHANGED <<stats, trace, mi>>
       \/ /\ stats' = stats \cup {report_name(queue[mi])}
          /\ mpc' = "failed"
          /\ main_err' = <<"failed to serialize">>
          /\ UNCHANGED <<trace, mi>>
    /\ UNCHANGED <<kernel_git, git_stdout, tags, queue, stats_is_dir, head, git_last,
                   acqVars, urlVars, catVars, verVars>>

\* the tags of the clone in a whole run of the program
RunTags ==
    {<<"v","1",".","0">>, <<"v","5",".","4">>, <<"v","5",".","4","-","r","c","1">>,
     <<"v","5",".","5">>}

RunTagLists == UNION {[1..n -> RunTags] : n \in 0..MaxRunTags}

\* reports a former run may have left in the stats directory
OldReports ==
    {report_name(Kernel_Git(<<"v","1",".","0">>)), report_name(Kernel_Git(<<"v","5",".","4">>))}

\* the program at its call of download_old_kernels, the files of the cache
\* directory being of the kinds `found`
InitRun(found) ==
    /\ InitAcquire(NumReleases, found, {1}, {1})
    /\ finished = OrderOff
    /\ UrlIdle
    /\ VerIdle
    /\ kernel_git \in BOOLEAN
    /\ \E l \in RunTagLists : git_stdout = IF kernel_git THEN l \o << <<>> >> ELSE <<>>
    /\ tags = <<>>
    /\ queue = <<>>
    /\ mpc = "acquire"
    /\ mi = 0
    /\ stats_is_dir \in BOOLEAN
    /\ stats \in IF stats_is_dir THEN SUBSET OldReports ELSE {{}}
    /\ head = <<>>
    /\ trace = <<>>
    /\ main_err = <<>>
    /\ git_last = GitChild(0, "")
    /\ CatIdle

InitProgram == InitRun({"absent", "valid"})

NextProgram ==
    \/ \E i \in 1..N : Begin(i)
    \/ \E i \in 1..N : RunToReturn(i)
    \/ Collect
    \/ Acquired
    \/ QueueArchive
    \/ ListTags
    \/ QueueTag
    \/ TagsDone
    \/ VerifyReturn
    \/ CreateStatsDir
    \/ Process
    \/ TokeiTarGz
    \/ Clean
    \/ Checkout
    \/ Tokei
    \/ WriteReport

SpecProgram == InitProgram /\ [][NextProgram]_vars

\* the steps of the processing loop taken for the unit at queue position k
StepsOf(k) == {trace[j][1] : j \in {j \in 1..Len(trace) : trace[j][2] = k}}
Analyzed(k) == StepsOf(k) \cap {"tokei_tar_gz", "tokei"} # {}

\* an archive unit and a VCS unit of the queue with the same label
SameLabel(a, g) ==
    /\ a \in 1..Len(queue) /\ g \in 1..Len(queue)
    /\ queue[a].kind = "Archive" /\ queue[g].kind = "Git"
    /\ Kernel_version(queue[a]) = Kernel_version(queue[g])

At(op) == {j \in 1..Len(trace) : trace[j][1] = op}

\* C14: tag listing and checkouts start only after download_old_kernels has
\* returned and none of its tasks is in flight; the checkouts of the shared
\* working tree are taken one at a time (a clean is directly followed by the
\* checkout of the same unit, and no step of another unit comes in between)
\* and in queue order.
C14_PhaseSeparation ==
    /\ mpc # "acquire" => result # "running" /\ InFlight = {}
    /\ mpc = "acquire" => tags = <<>> /\ trace = <<>> /\ head = <<>>
    /\ \A j \in 1..Len(trace) :
           /\ queue[trace[j][2]].kind = "Archive" => trace[j][1] \in {"tokei_tar_gz", "report"}
           /\ j < Len(trace) =>
                  /\ trace[j][2] <= trace[j + 1][2]
                  /\ trace[j][1] = "clean" => trace[j + 1] = <<"checkout", trace[j][2]>>
           /\ trace[j][1] = "checkout" => j > 1 /\ trace[j - 1] = <<"clean", trace[j][2]>>
    /\ \A j, k \in At("checkout") : j < k => trace[j][2] < trace[k][2]

C14_Witness ==
    /\ mpc = "exit"
    /\ Len(cached) = 2
    /\ Cardinality(At("checkout")) = 2
    /\ \E j \in At("checkout") : head = queue[trace[j][2]].tag

\* the last step of the processing loop, "none" before the first
LastStep == IF trace = <<>> THEN "none" ELSE trace[Len(trace)][1]

\* C16: checkout_hard first cleans, then checks out the tag; the checkout is
\* not run when the clean failed; and when either git invocation exits with a
\* non-zero code, the error returned carries the diagnostic output (stderr) of
\* that invocation.
C16_CheckoutHardError ==
    /\ \A j \in At("checkout") : j > 1 /\ trace[j - 1] = <<"clean", trace[j][2]>>
    /\ mpc = "failed" /\ LastStep = "clean" =>
           <<"checkout", trace[Len(trace)][2]>> \notin Range(trace)
    /\ LastStep \in {"clean", "checkout"} /\ git_last.code # 0 =>
           /\ mpc = "failed"
           /\ git_last.stderr \in Range(main_err)

\* the label of the unit at queue position k, from what the unit was made of:
\* the release of the k-th cached archive, or the tag as git listed it
Label(k) ==
    IF queue[k].kind = "Archive" THEN <<"v">> \o cached[k].version.raw ELSE queue[k].tag
ReportFile(label) ==
    <<"l","i","n","u","x","-">> \o label \o <<".","j","s","o","n",".","g","z">>

AtExistingReport ==
    mpc = "process" /\ mi <= Len(queue) /\ ReportFile(Label(mi)) \in stats

\* the `continue`: on to the next unit, nothing else changed
SkipExisting ==
    AtExistingReport =>
        /\ mpc' = "process"
        /\ mi' = mi + 1
        /\ UNCHANGED <<queue, stats_is_dir, stats, head, trace, main_err, git_last>>

\* the errors q.analyze()? returns
AnalysisErrors ==
    ({<<"tokei_tar_gz">>, <<"tokei">>} \cup {git_run(c) : c \in GitExits}) \ {<<>>}

\* q.analyze()? has returned the error of the unit at position mi
AnalysisFailed == mpc = "failed" /\ main_err \in AnalysisErrors

\* main is in `for q in queue`, at the unit at position mi, or has left the loop
InLoop ==
    \/ mpc \in {"process", "tokei_tar_gz", "clean", "checkout", "tokei", "report"}
    \/ mpc = "exit" /\ ~verify
    \/ /\ mpc = "failed"
       /\ main_err \in AnalysisErrors \cup
              {<<"failed to create output file">>, <<"failed to serialize">>}

\* C24: a unit whose report linux-{label}.json.gz is in the stats directory
\* when the loop reaches it is passed over with no checkout, no analysis and
\* no write, and the loop goes on with the next unit; a unit whose analysis
\* fails ends the run: no report of that unit exists, no later unit has been
\* touched, and nothing happens after the failure.
C24_SkipOrStop ==
    /\ [][SkipExisting]_vars
    /\ [][mpc # "failed"]_vars
    /\ [](InLoop =>
              /\ \A k \in 1..(mi - 1) :
                     IF StepsOf(k) = {}
                     THEN ReportFile(Label(k)) \in stats
                     ELSE "report" \in StepsOf(k)
              /\ \A k \in (mi + 1)..Len(queue) : StepsOf(k) = {})
    /\ [](AnalysisFailed =>
              /\ Analyzed(mi) \/ "clean" \in StepsOf(mi)
              /\ "report" \notin StepsOf(mi)
              /\ ReportFile(Label(mi)) \notin stats)

C24_Witness ==
    /\ AnalysisFailed
    /\ mi > 1 /\ mi < Len(queue)
    /\ StepsOf(mi - 1) = {}
    /\ ReportFile(Label(mi - 1)) \in stats
    /\ Analyzed(mi)
    /\ ReportFile(Label(mi + 1)) \notin stats

\* The program started on a cache directory whose files are all there, good
\* or bad: what a run with `verify` is for.
InitRecheck == InitRun({"valid", "corrupt"})

SpecRecheck == InitRecheck /\ [][NextProgram]_vars

\* the queue holds an archive unit for every release acquired and a VCS unit
\* for every tag listed that is not skipped
QueueBuilt ==
    /\ \A k \in 1..Len(cached) :
           queue[k].kind = "Archive" /\ queue[k].release = cached[k].version
    /\ \A t \in 1..Len(tags) :
           ~skip_tag(tags[t]) =>
               \E g \in 1..Len(queue) : queue[g].kind = "Git" /\ queue[g].tag = tags[t]

\* C25: with `verify` set the program acquires the archives, testing every
\* file it finds in the cache, builds the queue and ends: no step of the
\* processing loop is taken, no tag is checked out (the working tree stays as
\* it was), and the stats directory and its files are never created or
\* changed.
C25_VerifyOnly ==
    /\ [][verify => UNCHANGED <<stats_is_dir, stats, head, trace>>]_vars
    /\ [](verify =>
              /\ trace = <<>>
              /\ head = <<>>
              /\ mpc \notin {"process", "tokei_tar_gz", "clean", "checkout", "tokei", "report"})
    /\ [](verify /\ mpc = "exit" =>
              /\ result = "ok"
              /\ Len(cached) = N
              /\ \A i \in 1..N :
                     /\ task[i].bad <=> cache0[Path(i)] = "corrupt"
                     /\ File(i) = "valid"
              /\ QueueBuilt)

C25_Witness ==
    /\ verify
    /\ mpc = "exit"
    /\ ~stats_is_dir
    /\ \E i \in 1..N : task[i].bad /\ task[i].wrote
    /\ \E i \in 1..N : cache0[Path(i)] = "valid"
    /\ \E g \in 1..Len(queue) : queue[g].kind = "Git"

----------------------------------------------------------------------------
(* Properties of the cache files over runs.                                *)

\* C12: in every reachable state, also between File::create and the end of
\* sync_all and after download_old_kernels returned an error, the file at a
\* canonical cache path is absent or holds a complete body, never a partly
\* written one.
C12_NoPartialFile ==
    \A i \in 1..N : File(i) # "partial"

C19_TrustOnPresence ==
    ~verify =>
        \A i \in 1..N :
            cache0[Path(i)] # "absent" =>
                /\ task[i].pc \in {"queued", "is_file", "ok"}
                /\ ~task[i].bad /\ ~task[i].wrote
                /\ task[i].url = <<>> /\ task[i].buf = "none"
                /\ File(i) = cache0[Path(i)]

C19_Witness ==
    /\ ~verify
    /\ result = "ok"
    /\ \E i, j \in 1..N :
           /\ cache0[Path(i)] = "corrupt" /\ task[i].pc = "ok" /\ File(i) = "corrupt"
           /\ cache0[Path(j)] = "valid" /\ task[j].pc = "ok" /\ File(j) = "valid"

\* an existing file the run accepts: it is there, and `verify` is off or the
\* file passes the test
Accepted(i) ==
    cache0[Path(i)] # "absent" /\ (~verify \/ ~test_archive(cache0[Path(i)]))

\* C23: a run, whether it succeeds or returns an error, leaves every existing
\* file it accepted as it found it; an existing file is removed or replaced
\* only when `verify` is on and the file failed the test; and the files in
\* the cache directory that belong to no release of the catalog are as found.
C23_CacheFrame ==
    /\ \A i \in 1..N :
           /\ Accepted(i) => File(i) = cache0[Path(i)] /\ ~task[i].wrote /\ ~task[i].bad
           /\ cache0[Path(i)] # "absent" /\ File(i) # cache0[Path(i)] =>
                  verify /\ test_archive(cache0[Path(i)]) /\ task[i].bad
    /\ \A p \in DOMAIN cache \ {Path(i) : i \in 1..N} : cache[p] = cache0[p]

C23_Witness ==
    /\ verify
    /\ result = "err"
    /\ \E i, j \in 1..N :
           /\ cache0[Path(i)] = "valid" /\ task[i].pc = "ok" /\ File(i) = "valid"
           /\ cache0[Path(j)] = "corrupt" /\ task[j].pc = "err" /\ File(j) = "absent"
    /\ \E p \in DOMAIN cache \ {Path(i) : i \in 1..N} : cache[p] = "valid"

\* The order specification: one run of the acquisition, step by step, with
\* the order in which the tasks return recorded.
InitOrder ==
    /\ InitAcquire(NumReleases, {"absent", "valid", "corrupt"}, 1..NumReleases,
                   {MaxParallelism})
    /\ finished = [on |-> TRUE, order |-> <<>>]
    /\ UrlIdle
    /\ VerIdle
    /\ MainIdle

NextOrder ==
    \/ \E i \in 1..N : Begin(i)
    \/ \E i \in 1..N : StepIsFile(i)
    \/ \E i \in 1..N : StepTestArchive(i)
    \/ \E i \in 1..N : StepRemoveFile(i)
    \/ \E i \in 1..N : StepGet(i)
    \/ \E i \in 1..N : StepCopyTo(i)
    \/ \E i \in 1..N : StepTestReader(i)
    \/ \E i \in 1..N : StepCreate(i)
    \/ \E i \in 1..N : StepWriteAll(i)
    \/ \E i \in 1..N : StepSyncAll(i)
    \/ Collect

SpecOrder == InitOrder /\ [][NextOrder]_vars

\* C22: in whatever order the tasks returned, a successful acquisition has
\* waited for all of them and returns one CachedKernel per release: the i-th
\* element is the i-th release of the catalog, with the path
\* linux-{versionId}.tar.gz under the cache directory.
C22_ResultInCatalogOrder ==
    result = "ok" =>
        /\ Len(cached) = Len(releases)
        /\ Range(finished.order) = 1..Len(releases)
        /\ Len(finished.order) = Len(releases)
        /\ \A i \in 1..Len(releases) :
               /\ cached[i].version = releases[i]
               /\ cached[i].path = <<"l","i","n","u","x","-">> \o releases[i].raw
                                       \o <<".","t","a","r",".","g","z">>

C22_Witness ==
    /\ result = "ok"
    /\ finished.order = <<2, 1>>
    /\ task[1].wrote /\ ~task[2].wrote

\* The crash specification: a cold cache and an environment without faults,
\* where the first run is terminated at any point and the program started
\* again; a partly written file can only be what the terminated run left.
InitCrash ==
    /\ InitAcquire(NumReleases, {"absent"}, {}, {1})
    /\ finished = OrderOff
    /\ UrlIdle
    /\ VerIdle
    /\ MainIdle

NextCrash ==
    \/ \E i \in 1..N : Begin(i)
    \/ \E i \in 1..N : StepIsFile(i)
    \/ \E i \in 1..N : StepTestArchive(i)
    \/ \E i \in 1..N : StepRemoveFile(i)
    \/ \E i \in 1..N : StepGet(i)
    \/ \E i \in 1..N : StepCopyTo(i)
    \/ \E i \in 1..N : StepTestReader(i)
    \/ \E i \in 1..N : StepCreate(i)
    \/ \E i \in 1..N : StepWriteAll(i)
    \/ \E i \in 1..N : StepSyncAll(i)
    \/ Collect
    \/ Terminate

SpecCrash == InitCrash /\ [][NextCrash]_vars

\* C13 as stated: when a terminated run left a partly written file at a
\* canonical path, the next run repairs it, so that the file behind a
\* CachedKernel the next run returns is never that partial file.
C13_PartialNeverReturned ==
    run = 2 /\ result = "ok" =>
        \A i \in 1..N : cache0[Path(i)] = "partial" => File(i) = "valid"

\* C13: the partial file a terminated run left is detected and repaired by
\* the next run only when that run verifies: its task then finds the file bad,
\* deletes it and returns after writing a verified download; a run without
\* `verify` accepts the partial file as it is and returns it.
C13_PartialRepairedOnlyWithVerify ==
    run = 2 =>
        \A i \in 1..N :
            cache0[Path(i)] = "partial" /\ task[i].pc = "ok" =>
                IF verify
                THEN task[i].bad /\ task[i].wrote /\ File(i) = "valid"
                ELSE ~task[i].bad /\ ~task[i].wrote /\ File(i) = "partial"

C13_Witness ==
    /\ run = 2
    /\ verify
    /\ result = "ok"
    /\ \E i \in 1..N : cache0[Path(i)] = "partial" /\ task[i].bad /\ File(i) = "valid"

----------------------------------------------------------------------------
(* main's choice of the releases to acquire (main.rs): the table, filtered  *)
(* by `important` unless --all was given.                                   *)

\* mutant: the filter keeps every release
filter_important_all(rs) == rs

\* releases.into_iter().filter(|v| v.important).collect()
filter_important(rs) == SelectSeq(rs, LAMBDA v : v.important)

\* if !all { releases = .. }
SelectReleases ==
    /\ mpc = "catalog"
    /\ releases' = IF all THEN catalog ELSE filter_important(catalog)
    /\ mpc' = "selected"
    /\ UNCHANGED <<verify, cache, task, index_atomic, result, cached, run, warm, cache0,
                   finished, faulty, parallelism, urlVars, kernel_git, git_stdout, tags, queue, mi,
                   procVars, catVars, verVars>>

\* the entries a generated table is made of
CatalogEntries ==
    {KernelVersion_new(raw) :
        raw \in {<<"!","1",".","0">>, <<"1",".","0">>, <<"!","1",".","1",".","0">>,
                 <<"1",".","1",".","0">>, <<"2",".","0">>}}

Catalogs == UNION {[1..n -> CatalogEntries] : n \in 0..MaxCatalog}

\* main after the table is loaded, before download_old_kernels is called
InitCatalog ==
    /\ AcqIdle
    /\ UrlIdle
    /\ VerIdle
    /\ kernel_git = FALSE
    /\ git_stdout = <<>>
    /\ tags = <<>>
    /\ queue = <<>>
    /\ mpc = "catalog"
    /\ mi = 0
    /\ ProcIdle
    /\ all \in BOOLEAN
    /\ catalog \in Catalogs

NextCatalog == SelectReleases

SpecCatalog == InitCatalog /\ [][NextCatalog]_vars

\* the positions of the important releases of the catalog, and the k-th of them
ImportantAt == {i \in 1..Len(catalog) : catalog[i].important}
Kth(S, k) == CHOOSE i \in S : Cardinality({j \in S : j <= i}) = k

\* C17: without --all the releases to acquire are exactly the important
\* releases of the catalog, in catalog order; they are a subset of the
\* catalog, filtering them again changes nothing, and the catalog
\* [1.0 important, 1.1.0 not important] yields the one target 1.0.
C17_ImportantOnly ==
    mpc = "selected" /\ ~all =>
        /\ Len(releases) = Cardinality(ImportantAt)
        /\ \A k \in 1..Len(releases) : releases[k] = catalog[Kth(ImportantAt, k)]
        /\ Range(releases) \subseteq Range(catalog)
        /\ \A k \in 1..Len(releases) : releases[k].important
        /\ filter_important(releases) = releases
        /\ catalog = <<[important |-> TRUE, raw |-> <<"1",".","0">>],
                       [important |-> FALSE, raw |-> <<"1",".","1",".","0">>]>>
               => releases = <<[important |-> TRUE, raw |-> <<"1",".","0">>]>>

C17_Witness ==
    /\ mpc = "selected"
    /\ ~all
    /\ catalog = <<KernelVersion_new(<<"!","1",".","0">>),
                   KernelVersion_new(<<"1",".","1",".","0">>)>>
    /\ Len(releases) = 1
    /\ releases[1].raw = <<"1",".","0">>

----------------------------------------------------------------------------
(* The archive verifier step by step (kernels.rs, test_reader_archive).    *)
(* The acquisition above only uses its verdict on a whole content; here    *)
(* the stream is the sequence of items the tar iterator yields: "entry"     *)
(* (an entry whose path resolves), "bad_path" (an entry whose path() is an  *)
(* Err), or an Err of the iterator: "decompress" (the gzip decoder failed), *)
(* "header" (a bad tar header), "truncated" (the stream ended early).       *)

IterErr == {"decompress", "header", "truncated"}
Items == {"entry", "bad_path"} \cup IterErr

\* mutant: the path of an entry is not looked at
match_entry_any_path(item) ==
    IF item \in IterErr THEN <<"bad entry: ", item>> ELSE <<>>

\* the body of `for entry in entries`: the reason returned, <<>> to go on
match_entry(item) ==
    IF item \in IterErr THEN <<"bad entry: ", item>>
    ELSE IF item = "bad_path" THEN <<"bad entry: ", "path">>
    ELSE <<>>

\* let entries = match a.entries() { Err(e) => return Some(..), Ok(entries) => entries }
VerifierEntries ==
    /\ vpc = "entries"
    /\ IF reader.entries_err
       THEN /\ verdict' = <<"failed to list tar entries: ", "entries">>
            /\ vpc' = "returned"
            /\ UNCHANGED vi
       ELSE /\ vpc' = "for"
            /\ vi' = 1
            /\ UNCHANGED verdict
    /\ UNCHANGED <<reader, acqVars, urlVars, kernel_git, git_stdout, tags, queue, mpc, mi,
                   procVars, catVars>>

\* for entry in entries { .. }, and the None after the loop
VerifierForEntry ==
    /\ vpc = "for"
    /\ IF vi > Len(reader.items)
       THEN vpc' = "returned" /\ UNCHANGED <<vi, verdict>>
       ELSE IF match_entry(reader.items[vi]) # <<>>
            THEN /\ verdict' = match_entry(reader.items[vi])
                 /\ vpc' = "returned"
                 /\ UNCHANGED vi
            ELSE /\ vi' = vi + 1
                 /\ UNCHANGED <<vpc, verdict>>
    /\ UNCHANGED <<reader, acqVars, urlVars, kernel_git, git_stdout, tags, queue, mpc, mi,
                   procVars, catVars>>

Streams ==
    {Stream(e, items) : e \in BOOLEAN,
                        items \in UNION {[1..n -> Items] : n \in 0..MaxEntries}}

\* test_reader_archive is called on a stream
InitVerify ==
    /\ AcqIdle
    /\ UrlIdle
    /\ MainIdle
    /\ reader \in Streams
    /\ vpc = "entries"
    /\ vi = 0
    /\ verdict = <<>>

NextVerify ==
    \/ VerifierEntries
    \/ VerifierForEntry

SpecVerify == InitVerify /\ [][NextVerify]_vars

\* the items of the stream that are not sound entries
Unsound == {k \in 1..Len(reader.items) : reader.items[k] # "entry"}

\* C21: the verifier returns a failure with a reason if and only if listing
\* the entries fails, or the iterator reports a decompression, header or
\* truncation error, or the path of some entry cannot be resolved; it returns
\* success only after it has gone through every item of the stream; a
\* truncated stream ends in a failure value; and no step of it changes a file.
C21_VerifierVerdict ==
    /\ cache = cache0
    /\ vpc # "returned" => verdict = <<>>
    /\ vpc = "returned" =>
           /\ verdict # <<>> <=> reader.entries_err \/ Unsound # {}
           /\ verdict = <<>> => vi = Len(reader.items) + 1
           /\ verdict # <<>> =>
                  /\ Len(verdict) = 2
                  /\ verdict[1] \in {"failed to list tar entries: ", "bad entry: "}
           /\ "truncated" \in Range(reader.items) => verdict # <<>>

C21_Witness ==
    /\ vpc = "returned"
    /\ reader = Stream(FALSE, <<"entry", "entry", "truncated">>)
    /\ verdict = <<"bad entry: ", "truncated">>

====
